---------------------------- MODULE Spec2Model ----------------------------
(***************************************************************************)
(* Spatially Adaptive Colocalization Analysis (SACA), 2-dimensional:       *)
(* saca_2d, single_iteration_2d, fill_buffers_2d and the numeric           *)
(* primitives they call.                                                   *)
(*                                                                         *)
(* Numbers.  The program computes in f64.  The model computes in fixed     *)
(* point: a real x is the integer floor(x * SCALE).  Products are taken    *)
(* before the division by SCALE, quotients are floored, and the operands   *)
(* are kept small enough for the 32-bit integers of the model checker.     *)
(* NaN and the infinities occur in the program only where dn = 0 (a 1x1    *)
(* image); that case is modelled by its outcome (see ConsistencyWeight).   *)
(***************************************************************************)
EXTENDS Integers, Sequences, FiniteSets, TLC

(***************************************************************************)
(* Bounds of the model and constants of the program.                       *)
(***************************************************************************)
MaxThreshold == 1

tu == 15
tl == 8

SCALE == 1000
SIZE_SCALE == 1000000

----------------------------------------------------------------------------
(***************************************************************************)
(* Fixed-point arithmetic.                                                 *)
(***************************************************************************)
Abs(x) == IF x < 0 THEN -x ELSE x

RECURSIVE SqrtIter(_, _)
SqrtIter(n, x) ==
    LET y == (x + (n \div x)) \div 2
    IN  IF y >= x THEN x ELSE SqrtIter(n, y)

\* floor of the square root of a natural number
ISqrt(n) == IF n = 0 THEN 0 ELSE SqrtIter(n, n)

\* f64 multiplication x * y of two fixed-point numbers (rounded toward zero)
FMul(x, y) ==
    LET p == x * y
    IN  IF p >= 0 THEN p \div SCALE ELSE -((-p) \div SCALE)

\* f64 division a / b, b > 0, as a fixed-point number: floor(a * SCALE / b),
\* by long division so that a * SCALE is never formed
FDiv(a, b) ==
    LET q0 == a \div b
        r0 == a % b
        q1 == (r0 * 10) \div b
        r1 == (r0 * 10) % b
        q2 == (r1 * 10) \div b
        r2 == (r1 * 10) % b
        q3 == (r2 * 10) \div b
    IN  ((q0 * 10 + q1) * 10 + q2) * 10 + q3

\* f64::sqrt of a fixed-point number
FSqrt(x) == ISqrt(x * SCALE)

\* f64::ln of a small positive integer, as a fixed-point number
LnTable == <<0, 693, 1099, 1386, 1609, 1792, 1946, 2079, 2197, 2303, 2398, 2485>>

FLn(n) == LnTable[n]

RECURSIVE SumTo(_, _)
\* f[1] + ... + f[n]
SumTo(f, n) == IF n = 0 THEN 0 ELSE f[n] + SumTo(f, n - 1)

\* the sum of the entries of the sequence f
SeqSum(f) == SumTo(f, Len(f))

\* the sequence f with every entry computed
Seq0(f) == f \o <<>>

\* n zeros
Zeros(n) == [i \in 1 .. n |-> 0]

----------------------------------------------------------------------------
(***************************************************************************)
(* Arrays.  An Array2 of dimensions <<rows, cols>> is a function on the    *)
(* index pairs <<row, col>>, 0-based as in the program.                    *)
(***************************************************************************)
Indices(dims) == (0 .. dims[1] - 1) \X (0 .. dims[2] - 1)

\* whether idx is an index of an array of dimensions dims
InBounds(idx, dims) ==
    /\ 0 <= idx[1] /\ idx[1] < dims[1]
    /\ 0 <= idx[2] /\ idx[2] < dims[2]

\* Array2::zeros(dims), Array2::ones(dims)
Filled(dims, v) == [p \in Indices(dims) |-> v]

\* an image given by its rows
ImageOf(rows) ==
    [dim |-> <<Len(rows), Len(rows[1])>>,
     px  |-> [p \in Indices(<<Len(rows), Len(rows[1])>>) |-> rows[p[1] + 1][p[2] + 1]]]

----------------------------------------------------------------------------
(***************************************************************************)
(* kernel::neighborhood::weighted_circle                                   *)
(***************************************************************************)
\* the weight of the kernel cell <<row, col>>
KernelCellMut(row, col, center, falloff_radius, iv) ==
    LET d2          == (col - center) * (col - center) + (row - center) * (row - center)
        norm_dist   == (ISqrt(d2 * SCALE * SCALE) * SCALE) \div falloff_radius
        norm_center == (center * SCALE * SCALE) \div falloff_radius
    IN  IF norm_dist < norm_center
        THEN IF norm_dist >= iv THEN 0 ELSE iv - norm_dist
        ELSE 0

KernelCellFlatMut(row, col, center, falloff_radius, iv) ==
    LET d2          == (col - center) * (col - center) + (row - center) * (row - center)
        norm_dist   == (ISqrt(d2 * SCALE * SCALE) * SCALE) \div falloff_radius
        norm_center == (center * SCALE * SCALE) \div falloff_radius
    IN  IF norm_dist <= norm_center
        THEN IF norm_dist >= iv THEN 0 ELSE iv
        ELSE 0

KernelCell(row, col, center, falloff_radius, iv) ==
    LET d2          == (col - center) * (col - center) + (row - center) * (row - center)
        norm_dist   == (ISqrt(d2 * SCALE * SCALE) * SCALE) \div falloff_radius
        norm_center == (center * SCALE * SCALE) \div falloff_radius
    IN  IF norm_dist <= norm_center
        THEN IF norm_dist >= iv THEN 0 ELSE iv - norm_dist
        ELSE 0

weighted_circleMut(circle_radius, falloff_radius, iv) ==
    LET dim == circle_radius * 2 + 1
    IN  [tag |-> "Ok",
         val |-> [k \in Indices(<<dim, dim>>) |->
                     KernelCell(k[1], k[2], circle_radius, falloff_radius, iv)]]

weighted_circle(circle_radius, falloff_radius, iv) ==
    IF circle_radius = 0
    THEN [tag |-> "Err",
          err |-> [kind |-> "InvalidArrayParameterValueLess",
                   param_name |-> "circle_radius", value |-> 0]]
    ELSE LET dim == circle_radius * 2 + 1
         IN  [tag |-> "Ok",
              val |-> [k \in Indices(<<dim, dim>>) |->
                          KernelCell(k[1], k[2], circle_radius, falloff_radius, iv)]]

----------------------------------------------------------------------------
(***************************************************************************)
(* kernel::neighborhood::circle, sphere and weighted_sphere.  An Array3 of *)
(* dimensions <<planes, rows, cols>> is a function on the index triples    *)
(* <<pln, row, col>>.                                                      *)
(***************************************************************************)
Indices3(dims) == (0 .. dims[1] - 1) \X (0 .. dims[2] - 1) \X (0 .. dims[3] - 1)

\* whether the cell <<row, col>> of the circle kernel is set
CircleCellMut(row, col, center) ==
    LET d2   == (col - center) * (col - center) + (row - center) * (row - center)
        dist == ISqrt(d2 * SCALE * SCALE)
    IN  dist < center * SCALE

CircleCell(row, col, center) ==
    LET d2   == (col - center) * (col - center) + (row - center) * (row - center)
        dist == ISqrt(d2 * SCALE * SCALE)
    IN  dist <= center * SCALE

circle(radius_) ==
    IF radius_ = 0
    THEN [tag |-> "Err",
          err |-> [kind |-> "InvalidArrayParameterValueLess",
                   param_name |-> "radius", value |-> 0]]
    ELSE LET dim == radius_ * 2 + 1
         IN  [tag |-> "Ok",
              val |-> [k \in Indices(<<dim, dim>>) |-> CircleCell(k[1], k[2], radius_)]]

\* whether the cell <<pln, row, col>> of the sphere kernel is set
SphereCell(pln, row, col, center) ==
    LET d2   == (col - center) * (col - center) + (row - center) * (row - center)
                    + (pln - center) * (pln - center)
        dist == ISqrt(d2 * SCALE * SCALE)
    IN  dist <= center * SCALE

sphere(radius_) ==
    IF radius_ = 0
    THEN [tag |-> "Err",
          err |-> [kind |-> "InvalidArrayParameterValueEqual",
                   param_name |-> "radius", value |-> 0]]
    ELSE LET dim == radius_ * 2 + 1
         IN  [tag |-> "Ok",
              val |-> [k \in Indices3(<<dim, dim, dim>>) |->
                          SphereCell(k[1], k[2], k[3], radius_)]]

\* the weight of the cell <<pln, row, col>> of the weighted sphere kernel
WeightedSphereCellMut(pln, row, col, center, falloff_radius, iv) ==
    LET d2          == (col - center) * (col - center) + (row - center) * (row - center)
                           + (pln - center) * (pln - center)
        norm_dist   == (ISqrt(d2 * SCALE * SCALE) * SCALE) \div falloff_radius
    IN  IF norm_dist >= iv THEN 0 ELSE iv - norm_dist

WeightedSphereCell(pln, row, col, center, falloff_radius, iv) ==
    LET d2          == (col - center) * (col - center) + (row - center) * (row - center)
                           + (pln - center) * (pln - center)
        norm_dist   == (ISqrt(d2 * SCALE * SCALE) * SCALE) \div falloff_radius
        norm_center == (center * SCALE * SCALE) \div falloff_radius
    IN  IF norm_dist <= norm_center
        THEN IF norm_dist >= iv THEN 0 ELSE iv - norm_dist
        ELSE 0

weighted_sphere(sphere_radius, falloff_radius, iv) ==
    IF sphere_radius = 0
    THEN [tag |-> "Err",
          err |-> [kind |-> "InvalidArrayParameterValueLess",
                   param_name |-> "sphere_radius", value |-> 0]]
    ELSE LET dim == sphere_radius * 2 + 1
         IN  [tag |-> "Ok",
              val |-> [k \in Indices3(<<dim, dim, dim>>) |->
                          WeightedSphereCell(k[1], k[2], k[3], sphere_radius,
                                             falloff_radius, iv)]]

\* Option<f64>::unwrap_or(1.0) of the argument initial_value
InitialValue(initial_value) ==
    IF initial_value.tag = "Some" THEN initial_value.val ELSE SCALE

----------------------------------------------------------------------------
(***************************************************************************)
(* statistics::effective_sample_size and statistics::weighted_kendall_tau_b*)
(* Both sum products of weights; a slot of weight 0 adds 0 to every sum,   *)
(* so the sums range over the slots of non-zero weight.                    *)
(***************************************************************************)
\* the slots of non-zero weight, in increasing order
Support(w) == SelectSeq(Seq0([i \in 1 .. Len(w) |-> i]), LAMBDA i : w[i] # 0)

\* (sum v)^2 / sum v^2 of the weights v, or 0 when there is none
KishSize(v) ==
    LET s1 == SeqSum(v)
        s2 == SeqSum([k \in 1 .. Len(v) |-> v[k] * v[k]])
    IN  IF s2 = 0 THEN 0 ELSE FDiv(s1 * s1, s2)

\* Kish's effective sample size (sum w)^2 / sum w^2, or 0 when all weights are 0
effective_sample_sizeMut(w) == Len(w) * SCALE

effective_sample_size(w) == KishSize(SelectSeq(w, LAMBDA x : x # 0))

\* the weight of the pair of slots i, j
PairWeight(w, i, j) == (w[i] * w[j]) \div SCALE

Sign(x) == IF x > 0 THEN 1 ELSE IF x < 0 THEN -1 ELSE 0

\* the pairs of slots i < j of S: <<i, j, the weight of the pair, the sign of
\* a[i] - a[j], the sign of b[i] - b[j]>>
PairsOf(a, b, w, S) ==
    SelectSeq(
        Seq0([m \in 1 .. Len(S) * Len(S) |->
                LET i == S[((m - 1) \div Len(S)) + 1]
                    j == S[((m - 1) % Len(S)) + 1]
                IN  <<i, j, PairWeight(w, i, j), Sign(a[i] - a[j]), Sign(b[i] - b[j])>>]),
        LAMBDA pr : pr[1] < pr[2])

\* the weight of the pairs of P whose signs <<of a, of b>> are in orders
PairSum(P, orders) ==
    SeqSum([m \in 1 .. Len(P) |-> IF <<P[m][4], P[m][5]>> \in orders THEN P[m][3] ELSE 0])

\* (concordant - discordant) / sqrt((total - tie_a) * (total - tie_b))
TauOfSumsMut(total, tie_a, tie_b, conc, disc) ==
    LET denom == ISqrt(total - tie_a)
        numer == conc - disc
    IN  IF denom = 0
        THEN [tag |-> "Err", err |-> [kind |-> "ZeroDenominator"]]
        ELSE [tag |-> "Ok",
              val |-> IF numer >= 0 THEN (numer * SCALE) \div denom
                      ELSE -(((-numer) * SCALE) \div denom)]

TauOfSums(total, tie_a, tie_b, conc, disc) ==
    LET denom == ISqrt((total - tie_a) * (total - tie_b))
        numer == conc - disc
    IN  IF denom = 0
        THEN [tag |-> "Err", err |-> [kind |-> "ZeroDenominator"]]
        ELSE [tag |-> "Ok",
              val |-> IF numer >= 0 THEN (numer * SCALE) \div denom
                      ELSE -(((-numer) * SCALE) \div denom)]

TauOfPairs(P) ==
    TauOfSums(PairSum(P, {-1, 0, 1} \X {-1, 0, 1}),
              PairSum(P, {0} \X {-1, 0, 1}),
              PairSum(P, {-1, 0, 1} \X {0}),
              PairSum(P, {<<1, 1>>, <<-1, -1>>}),
              PairSum(P, {<<1, -1>>, <<-1, 1>>}))

\* tau_b, an error when the lengths differ or the denominator is 0
weighted_kendall_tau_b(a, b, w) ==
    IF Len(a) # Len(b) \/ Len(a) # Len(w)
    THEN [tag |-> "Err", err |-> [kind |-> "MismatchedArrayLengths"]]
    ELSE TauOfPairs(PairsOf(a, b, w, Support(w)))

----------------------------------------------------------------------------
(***************************************************************************)
(* colocalization::saca: the buffer filler and its helpers                 *)
(***************************************************************************)
get_end_positionMut(location, rad, boundary) ==
    LET end == location + rad
    IN  IF end >= boundary THEN boundary ELSE end

get_end_position(location, rad, boundary) ==
    LET end == location + rad
    IN  IF end >= boundary THEN boundary - 1 ELSE end

get_start_position(location, rad) ==
    IF location < rad THEN 0 ELSE location - rad

\* the window cells in the order the nested iterator of fill_buffers_2d
\* visits them: rows outermost
WindowCells(row_start, row_end, col_start, col_end) ==
    LET ncols == col_end - col_start + 1
        nrows == row_end - row_start + 1
    IN  Seq0([i \in 1 .. (nrows * ncols) |->
                <<row_start + ((i - 1) \div ncols), col_start + ((i - 1) % ncols)>>])

\* the weight of a window cell: the kernel weight times the consistency
\* factor (1 - tau_diff_abs)^2, or 0.  With dn = 0 the program computes
\* on / dn = inf or NaN and tau_diff_abs = NaN or inf, for which
\* tau_diff_abs < 1.0 is false.
ConsistencyWeightMut(kw, tau_cell, ot, on, dn_) ==
    IF dn_ = 0 THEN kw
    ELSE LET on_dn        == (on * SCALE) \div dn_
             tau_diff     == tau_cell - ot
             tau_diff_abs == IF on_dn = 0 THEN SCALE
                             ELSE (Abs(tau_diff) * SCALE) \div on_dn
         IN  IF tau_diff_abs < SCALE
             THEN FMul(kw, FMul(SCALE - tau_diff_abs, SCALE - tau_diff_abs))
             ELSE 0

ConsistencyWeight(kw, tau_cell, ot, on, dn_) ==
    IF dn_ = 0 THEN 0
    ELSE LET on_dn        == (on * SCALE) \div dn_
             tau_diff     == tau_cell - ot
             tau_diff_abs == FMul(Abs(tau_diff), on_dn)
         IN  IF tau_diff_abs < SCALE
             THEN FMul(kw, FMul(SCALE - tau_diff_abs, SCALE - tau_diff_abs))
             ELSE 0

\* fill_buffers_2d: the three buffers of length buf_size after the call, the
\* number of slots filled from the window, and the window and kernel
\* indices used
fill_buffers_2d(img_a, img_b, kern, otau, osqn, buf_size, dn_, rad, pos_row, pos_col, row_start, row_end, col_start, col_end) ==
    LET cells == WindowCells(row_start, row_end, col_start, col_end)
        n     == Len(cells)
        ot    == otau[<<pos_row, pos_col>>]
        on    == osqn[<<pos_row, pos_col>>]
        \* lines 264-265
        kidx  == Seq0([i \in 1 .. n |->
                    <<(cells[i][1] - pos_row) + rad, (cells[i][2] - pos_col) + rad>>])
        \* lines 281-283: the slots from i on are filled with the default
        rest  == Zeros(buf_size - n)
    IN  [filled |-> n,
         cells  |-> cells,
         kidx   |-> kidx,
         buf_a  |-> [i \in 1 .. n |-> img_a[cells[i]]] \o rest,
         buf_b  |-> [i \in 1 .. n |-> img_b[cells[i]]] \o rest,
         buf_w  |-> [i \in 1 .. n |->
                        ConsistencyWeight(kern[kidx[i]], otau[cells[i]], ot, on, dn_)]
                    \o rest]

ThresholdWeightMut(a, b, w, thr_a, thr_b) ==
    IF a < thr_a /\ b < thr_b THEN 0 ELSE w

\* lines 193-201: the weight of a slot after the threshold filter
ThresholdWeight(a, b, w, thr_a, thr_b) ==
    IF a < thr_a \/ b < thr_b THEN 0 ELSE w

\* the z-score tau * sqrt_n * 1.5
ZScore(tau, sqrt_n) == FMul(FMul(tau, sqrt_n), 1500)

----------------------------------------------------------------------------
(***************************************************************************)
(* The inputs: pairs of images and thresholds.                             *)
(***************************************************************************)
Img11 == ImageOf(<< <<1>> >>)
Img13 == ImageOf(<< <<1, 0, 2>> >>)
Img31 == ImageOf(<< <<0>>, <<0>>, <<0>> >>)
ImgQ  == ImageOf(<< <<1, 2>>, <<3, 4>> >>)
ImgFA == ImageOf(<< <<0, 0, 0>>, <<1, 1, 1>> >>)
ImgFB == ImageOf(<< <<0, 0, 1>>, <<0, 1, 1>> >>)
Img32 == ImageOf(<< <<0, 1>>, <<0, 1>>, <<1, 0>> >>)

Images == {Img11, Img13, Img31, ImgQ, ImgFA, ImgFB, Img32}

Thresholds == 0 .. MaxThreshold

----------------------------------------------------------------------------
(***************************************************************************)
(* The state of one call of saca_2d.                                       *)
(*                                                                         *)
(*   pc = "call"   saca_2d has been called, nothing has run                *)
(*        "loop"   at the head of the closure of (0..tu).for_each          *)
(*        "tasks"  inside the parallel for_each of single_iteration_2d     *)
(*        "store"  the parallel for_each has joined (line 220)             *)
(*        "step"   single_iteration_2d has returned                        *)
(*        "done"   saca_2d has returned Ok, "err" it has returned Err,     *)
(*        "panic"  an unwrap or an index has panicked                      *)
(*                                                                         *)
(* locals, acc, iters, frozen_at are history variables: what each pixel    *)
(* task of the current iteration computed, which cells it read and wrote,  *)
(* how many calls of single_iteration_2d have returned, and the iteration  *)
(* in which each pixel's stop flag was set.                                *)
(*                                                                         *)
(* callee, args, outcome are the state of one call of a function of the    *)
(* library made directly (kernel::neighborhood, statistics): the function  *)
(* called, its arguments, and what the call has returned and left in the   *)
(* slices it mutates; callee is "none" while saca_2d is the function run.  *)
(***************************************************************************)
VARIABLES image_a, image_b, threshold_a, threshold_b,
          pc, ret,
          result, new_tau, new_sqrt_n, old_tau, old_sqrt_n, stop,
          dn, lambda, size_f, radius, lower_bound_check, s,
          kernel, done,
          locals, acc, iters, frozen_at,
          run, first_ret,
          callee, args, outcome

inputs  == <<image_a, image_b, threshold_a, threshold_b>>
buffers == <<result, new_tau, new_sqrt_n, old_tau, old_sqrt_n, stop>>
params  == <<dn, lambda, size_f, radius, lower_bound_check, s>>
history == <<locals, acc, iters, frozen_at>>
library == <<callee, args, outcome>>
calls   == <<run, first_ret, library>>
vars    == <<inputs, pc, ret, buffers, params, kernel, done, history, calls>>

\* an array that has not been allocated
NoArray == <<>>

\* a lane of the Array3 stop along Axis(2): ln[0] the stop flag, ln[1] and
\* ln[2] the checkpoint of tau and of sqrt_n
LaneMut(flag, cp_tau, cp_sqrt_n) ==
    [k \in 0 .. 2 |-> IF k = 0 THEN flag ELSE cp_tau]

Lane(flag, cp_tau, cp_sqrt_n) ==
    [k \in 0 .. 2 |-> IF k = 0 THEN flag ELSE IF k = 1 THEN cp_tau ELSE cp_sqrt_n]

dims_a == image_a.dim
dims_b == image_b.dim

Pixels == Indices(dims_a)

\* the pixels whose stop flag is set
Frozen == {p \in Pixels : stop[p][0] # 0}

Idle == [state |-> "idle"]

\* no function of the library is called directly
NoLibraryCall ==
    /\ callee = "none"
    /\ args = <<>>
    /\ outcome = [tag |-> "None"]

\* the state before saca_2d runs, for the given inputs
Fresh ==
    /\ pc = "call"
    /\ ret = [tag |-> "None"]
    /\ result = NoArray /\ new_tau = NoArray /\ new_sqrt_n = NoArray
    /\ old_tau = NoArray /\ old_sqrt_n = NoArray /\ stop = NoArray
    /\ dn = 0 /\ lambda = 0 /\ size_f = 0 /\ radius = 0
    /\ lower_bound_check = FALSE /\ s = 0
    /\ kernel = NoArray /\ done = {}
    /\ locals = NoArray /\ acc = {} /\ iters = 0 /\ frozen_at = NoArray

Init ==
    /\ image_a \in Images
    /\ image_b \in Images
    /\ threshold_a \in Thresholds
    /\ threshold_b \in Thresholds
    /\ Fresh
    /\ run = 1
    /\ first_ret = [tag |-> "None"]
    /\ NoLibraryCall

----------------------------------------------------------------------------
(***************************************************************************)
(* saca_2d, lines 58-83: the shape check, the buffers, the parameters.     *)
(***************************************************************************)
ShapesDifferMut(da, db) == da[1] * da[2] # db[1] * db[2]

\* line 60
ShapesDiffer(da, db) == da # db

\* line 76: dn = sqrt(ln(rows * cols)) * 2
Dn(da) == FSqrt(FLn(da[1] * da[2])) * 2

saca_2d_enter ==
    /\ pc = "call"
    /\ IF ShapesDiffer(dims_a, dims_b)
       THEN /\ pc' = "err"
            /\ ret' = [tag |-> "Err",
                       err |-> [kind    |-> "MismatchedArrayShapes",
                                shape_a |-> <<dims_a[1], dims_a[2]>>,
                                shape_b |-> <<dims_b[1], dims_b[2]>>]]
            /\ UNCHANGED <<buffers, params, frozen_at>>
       ELSE /\ pc' = "loop"
            /\ ret' = ret
            /\ result' = Filled(dims_a, 0)
            /\ new_tau' = Filled(dims_a, 0)
            /\ new_sqrt_n' = Filled(dims_a, 0)
            /\ old_tau' = Filled(dims_a, 0)
            /\ old_sqrt_n' = Filled(dims_a, SCALE)
            /\ stop' = Filled(dims_a, Lane(0, 0, 0))
            /\ dn' = Dn(dims_a)
            /\ lambda' = FMul(Dn(dims_a), SCALE)
            /\ size_f' = SIZE_SCALE
            /\ radius' = 1
            /\ lower_bound_check' = FALSE
            /\ s' = 0
            /\ frozen_at' = Filled(dims_a, -1)
    /\ UNCHANGED <<inputs, kernel, done, locals, acc, iters, calls>>

----------------------------------------------------------------------------
(***************************************************************************)
(* saca_2d, lines 86-87, and single_iteration_2d, lines 140-149: the       *)
(* radius and the kernel of iteration s.                                   *)
(***************************************************************************)
LoopContinuesMut(i) == i < tu /\ Frozen = {}

\* line 86: (0..tu).for_each
LoopContinues(i) == i < tu

\* line 87: size_f.floor() as usize
RadiusOfMut(sf) == (sf \div SIZE_SCALE) - 1

RadiusOf(sf) == sf \div SIZE_SCALE

\* line 141: radius as f64 * (2.5_f64).sqrt()
Falloff(rad) == rad * FSqrt(2500)

iteration_begin ==
    /\ pc = "loop"
    /\ LoopContinues(s)
    /\ radius' = RadiusOf(size_f)
    /\ LET k == weighted_circle(radius', Falloff(radius'), SCALE)
       IN  IF k.tag = "Ok"
           THEN pc' = "tasks" /\ kernel' = k.val
           ELSE pc' = "panic" /\ kernel' = kernel
    /\ done' = {}
    /\ locals' = [p \in Pixels |-> Idle]
    /\ acc' = {}
    /\ UNCHANGED <<inputs, ret, buffers, dn, lambda, size_f, lower_bound_check, s,
                   iters, frozen_at, calls>>

\* line 118
saca_2d_return ==
    /\ pc = "loop"
    /\ ~LoopContinues(s)
    /\ pc' = "done"
    /\ ret' = [tag |-> "Ok", val |-> result]
    /\ UNCHANGED <<inputs, buffers, params, kernel, done, history, calls>>

----------------------------------------------------------------------------
(***************************************************************************)
(* single_iteration_2d, lines 156-220: the task of one pixel.              *)
(***************************************************************************)
SkipPixelMut(bound_check, ln) == FALSE

\* lines 158-162
SkipPixel(bound_check, ln) == bound_check /\ ln[0] # 0

PrevTauMut == [name |-> "new_tau", arr |-> new_tau]

\* line 177: the map passed to fill_buffers_2d as old_tau
PrevTau == [name |-> "old_tau", arr |-> old_tau]

\* line 178: the map passed to fill_buffers_2d as old_sqrt_n
PrevSqrtN == [name |-> "old_sqrt_n", arr |-> old_sqrt_n]

TauOrZeroMut(res) == IF res.tag = "Ok" THEN res.val ELSE SCALE

\* line 208: unwrap_or(0.0)
TauOrZero(res) == IF res.tag = "Ok" THEN res.val ELSE 0

StopDiffMut(ln, nt) == Abs(ln[1] - nt)

\* line 213
StopDiff(ln, nt) == FMul(Abs(ln[1] - nt), ln[2])

StopConditionMut(tau_diff, lam) == tau_diff < lam

\* line 214
StopCondition(tau_diff, lam) == tau_diff > lam

RevertedMut(froze, computed, previous) == computed

\* lines 216-217: the value a cell of new_tau, new_sqrt_n is left with
Reverted(froze, computed, previous) == IF froze THEN previous ELSE computed

Range(f) == {f[i] : i \in DOMAIN f}

\* lines 165-176: the buffer length and the window of the pixel <<row, col>>
TaskWindow(row, col) ==
    [buf_size  |-> (2 * radius + 1) * (2 * radius + 1),
     row_start |-> get_start_position(row, radius),
     row_end   |-> get_end_position(row, radius, dims_a[1]),
     col_start |-> get_start_position(col, radius),
     col_end   |-> get_end_position(col, radius, dims_a[2])]

\* an index out of bounds panics: a buffer slot, an image cell, a kernel cell
WindowPanics(row, col, buf_size, cells) ==
    \/ Len(cells) > buf_size
    \/ \E i \in 1 .. Len(cells) :
          \/ ~InBounds(cells[i], dims_a)
          \/ ~InBounds(cells[i], dims_b)
          \/ ~InBounds(<<(cells[i][1] - row) + radius, (cells[i][2] - col) + radius>>,
                       <<2 * radius + 1, 2 * radius + 1>>)

\* lines 193-201: the weights after the threshold filter
ThresholdFilter(buf_a, buf_b, buf_w) ==
    Seq0([i \in 1 .. Len(buf_w) |->
            ThresholdWeight(buf_a[i], buf_b[i], buf_w[i], threshold_a, threshold_b)])

\* lines 207-210
EstimateOf(nn, tau_res) ==
    [nn |-> nn, tau_res |-> tau_res, tau |-> TauOrZero(tau_res),
     re |-> ZScore(TauOrZero(tau_res), nn)]

EstimateMut(nn, buf_a, buf_b, buf_w) ==
    IF nn <= SCALE
    THEN [nn |-> nn, tau_res |-> [tag |-> "NotCalled"], tau |-> 0, re |-> 0]
    ELSE EstimateOf(nn, weighted_kendall_tau_b(buf_a, buf_b, buf_w))

\* lines 204-211: sqrt_n, tau and the z-score computed from the buffers
Estimate(nn, buf_a, buf_b, buf_w) ==
    IF nn <= 0
    THEN [nn |-> nn, tau_res |-> [tag |-> "NotCalled"], tau |-> 0, re |-> 0]
    ELSE EstimateOf(nn, weighted_kendall_tau_b(buf_a, buf_b, buf_w))

\* lines 212-219: the stop check, and what new_tau and new_sqrt_n are left with
StopCheck(p, tau, nn) ==
    LET tau_diff == IF lower_bound_check THEN StopDiff(stop[p], tau) ELSE 0
        froze    == lower_bound_check /\ StopCondition(tau_diff, lambda)
    IN  [tau_diff |-> tau_diff,
         froze    |-> froze,
         nt_final |-> Reverted(froze, tau, old_tau[p]),
         nn_final |-> Reverted(froze, nn, old_sqrt_n[p])]

TaskStop(p, win, fb, buf_w, est) ==
    [state |-> "processed", win |-> win, fb |-> fb, buf_w |-> buf_w, est |-> est,
     chk |-> StopCheck(p, est.tau, est.nn)]

TaskEstimate(p, win, fb, buf_w) ==
    TaskStop(p, win, fb, buf_w,
             Estimate(FSqrt(effective_sample_size(buf_w)), fb.buf_a, fb.buf_b, buf_w))

TaskFilter(p, win, fb) ==
    TaskEstimate(p, win, fb, ThresholdFilter(fb.buf_a, fb.buf_b, fb.buf_w))

TaskFill(p, win) ==
    IF WindowPanics(p[1], p[2], win.buf_size,
                    WindowCells(win.row_start, win.row_end, win.col_start, win.col_end))
    THEN [state |-> "panic"]
    ELSE TaskFilter(p, win,
             fill_buffers_2d(image_a.px, image_b.px, kernel, PrevTau.arr, PrevSqrtN.arr,
                             win.buf_size, dn, radius, p[1], p[2],
                             win.row_start, win.row_end, win.col_start, win.col_end))

\* what the task of pixel p computes in the current state: its window win,
\* the buffers fb, the filtered weights buf_w, the estimate est and the
\* stop check chk
PixelCompute(p) == TaskFill(p, TaskWindow(p[1], p[2]))

\* the cells the task of pixel p reads and writes: <<task, "r" or "w", array, index>>
TaskAccesses(p, cells, kidx, froze) ==
    {<<p, "r", "stop", p>>}
    \cup {<<p, "r", "image_a", c>> : c \in cells}
    \cup {<<p, "r", "image_b", c>> : c \in cells}
    \cup {<<p, "r", "kernel", k>> : k \in kidx}
    \cup {<<p, "r", PrevTau.name, c>> : c \in cells \cup {p}}
    \cup {<<p, "r", PrevSqrtN.name, p>>}
    \cup {<<p, "w", "new_sqrt_n", p>>, <<p, "r", "new_sqrt_n", p>>}
    \cup {<<p, "w", "new_tau", p>>, <<p, "w", "result", p>>}
    \cup (IF lower_bound_check THEN {<<p, "r", "new_tau", p>>} ELSE {})
    \cup (IF froze
          THEN {<<p, "w", "stop", p>>, <<p, "r", "old_tau", p>>,
                <<p, "r", "old_sqrt_n", p>>}
          ELSE {})

pixel_task(p) ==
    /\ pc = "tasks"
    /\ p \notin done
    /\ done' = done \cup {p}
    /\ IF SkipPixel(lower_bound_check, stop[p])
       THEN /\ locals' = [locals EXCEPT ![p] = [state |-> "skipped"]]
            /\ acc' = acc \cup {<<p, "r", "stop", p>>}
            /\ UNCHANGED <<pc, result, new_tau, new_sqrt_n, stop, frozen_at>>
       ELSE \E out \in {PixelCompute(p)} :
                IF out.state = "panic"
                THEN /\ pc' = "panic"
                     /\ UNCHANGED <<locals, acc, result, new_tau, new_sqrt_n, stop,
                                    frozen_at>>
                ELSE /\ pc' = pc
                     /\ locals' = [locals EXCEPT ![p] = out]
                     /\ acc' = acc \cup TaskAccesses(p, Range(out.fb.cells),
                                                     Range(out.fb.kidx), out.chk.froze)
                     /\ result' = [result EXCEPT ![p] = out.est.re]
                     /\ new_tau' = [new_tau EXCEPT ![p] = out.chk.nt_final]
                     /\ new_sqrt_n' = [new_sqrt_n EXCEPT ![p] = out.chk.nn_final]
                     /\ stop' = IF out.chk.froze
                                THEN [stop EXCEPT ![p] = Lane(1, stop[p][1], stop[p][2])]
                                ELSE stop
                     /\ frozen_at' = IF out.chk.froze /\ stop[p][0] = 0
                                     THEN [frozen_at EXCEPT ![p] = s]
                                     ELSE frozen_at
    /\ UNCHANGED <<inputs, ret, old_tau, old_sqrt_n, params, kernel, iters, calls>>

AllTasksDoneMut == TRUE

\* line 220: for_each returns when every task has run
AllTasksDone == done = Pixels

iteration_join ==
    /\ pc = "tasks"
    /\ AllTasksDone
    /\ pc' = "store"
    /\ UNCHANGED <<inputs, ret, buffers, params, kernel, done, history, calls>>

\* lines 222-224
iteration_store ==
    /\ pc = "store"
    /\ old_tau' = new_tau
    /\ old_sqrt_n' = new_sqrt_n
    /\ iters' = iters + 1
    /\ pc' = "step"
    /\ UNCHANGED <<inputs, ret, result, new_tau, new_sqrt_n, stop, params, kernel,
                   done, locals, acc, frozen_at, calls>>

----------------------------------------------------------------------------
(***************************************************************************)
(* saca_2d, lines 104-115: the size factor and the checkpoint.             *)
(***************************************************************************)
NextSizeMut(sf) == (sf * 125) \div 100

\* line 104: size_f *= step_size, step_size = 1.15
NextSize(sf) == (sf * 115) \div 100

IsCheckpointMut(i) == i = tl - 1

\* line 105
IsCheckpoint(i) == i = tl

loop_step ==
    /\ pc = "step"
    /\ size_f' = NextSize(size_f)
    /\ IF IsCheckpoint(s)
       THEN /\ lower_bound_check' = TRUE
            /\ stop' = [p \in Pixels |-> Lane(stop[p][0], new_tau[p], new_sqrt_n[p])]
       ELSE UNCHANGED <<lower_bound_check, stop>>
    /\ s' = s + 1
    /\ pc' = "loop"
    /\ UNCHANGED <<inputs, ret, result, new_tau, new_sqrt_n, old_tau, old_sqrt_n,
                   dn, lambda, radius, kernel, done, history, calls>>

----------------------------------------------------------------------------
(***************************************************************************)
(* A second call of saca_2d with the inputs of the first.                  *)
(***************************************************************************)
saca_2d_again ==
    /\ pc \in {"done", "err"}
    /\ run = 1
    /\ run' = 2
    /\ first_ret' = ret
    /\ pc' = "call"
    /\ ret' = [tag |-> "None"]
    /\ result' = NoArray /\ new_tau' = NoArray /\ new_sqrt_n' = NoArray
    /\ old_tau' = NoArray /\ old_sqrt_n' = NoArray /\ stop' = NoArray
    /\ dn' = 0 /\ lambda' = 0 /\ size_f' = 0 /\ radius' = 0
    /\ lower_bound_check' = FALSE /\ s' = 0
    /\ kernel' = NoArray /\ done' = {}
    /\ locals' = NoArray /\ acc' = {} /\ iters' = 0 /\ frozen_at' = NoArray
    /\ UNCHANGED <<inputs, library>>

----------------------------------------------------------------------------
Next ==
    \/ saca_2d_enter
    \/ iteration_begin
    \/ \E p \in Pixels : pixel_task(p)
    \/ iteration_join
    \/ iteration_store
    \/ loop_step
    \/ saca_2d_return

Spec == Init /\ [][Next]_vars

NextTwice == Next \/ saca_2d_again

SpecTwice == Init /\ [][NextTwice]_vars

----------------------------------------------------------------------------
(***************************************************************************)
(* Direct calls of the kernel builders of kernel::neighborhood.  A call    *)
(* is one step: the builder is a pure function of its arguments.           *)
(***************************************************************************)
MaxRadius == 5

Radii == 0 .. MaxRadius

\* the values of falloff_radius: 1.0, 2.0, 3.5, 7.0
FalloffRadii == {1000, 2000, 3500, 7000}

None == [tag |-> "None"]
Some(v) == [tag |-> "Some", val |-> v]

\* the values of initial_value: None, -1.0, 0.0, 0.5, 1.0, 2.0
InitialValues == {None, Some(-1000), Some(0), Some(500), Some(1000), Some(2000)}

KernelBuilders == {"circle", "sphere", "weighted_circle", "weighted_sphere"}

KernelArgs(fn) ==
    IF fn \in {"circle", "sphere"}
    THEN [radius : Radii]
    ELSE [radius : Radii, falloff_radius : FalloffRadii, initial_value : InitialValues]

\* saca_2d is not called: its state stays as it is before a call
NoSacaCall ==
    /\ image_a = Img11 /\ image_b = Img11
    /\ threshold_a = 0 /\ threshold_b = 0
    /\ Fresh
    /\ run = 1
    /\ first_ret = None

InitKernel ==
    /\ NoSacaCall
    /\ callee \in KernelBuilders
    /\ args \in KernelArgs(callee)
    /\ outcome = None

\* the call returns ret_
Return(ret_) ==
    /\ outcome = None
    /\ outcome' = ret_
    /\ UNCHANGED <<inputs, pc, ret, buffers, params, kernel, done, history,
                   run, first_ret, callee, args>>

circle_call ==
    /\ callee = "circle"
    /\ Return(circle(args.radius))

sphere_call ==
    /\ callee = "sphere"
    /\ Return(sphere(args.radius))

weighted_circle_call ==
    /\ callee = "weighted_circle"
    /\ Return(weighted_circle(args.radius, args.falloff_radius,
                              InitialValue(args.initial_value)))

weighted_sphere_call ==
    /\ callee = "weighted_sphere"
    /\ Return(weighted_sphere(args.radius, args.falloff_radius,
                              InitialValue(args.initial_value)))

NextKernel ==
    \/ circle_call
    \/ sphere_call
    \/ weighted_circle_call
    \/ weighted_sphere_call

SpecKernel == InitKernel /\ [][NextKernel]_vars

----------------------------------------------------------------------------
(***************************************************************************)
(* Properties of saca_2d.                                                  *)
(***************************************************************************)
\* every task of the current iteration has run and the for_each has joined
Joined == pc = "store"

\* the pixels whose task of the current iteration filled its buffers
Processed == {p \in Pixels : locals[p].state = "processed"}

\* C1: images whose dimension tuples differ (2x3 against 3x2 included) make
\* saca_2d return Err(MismatchedArrayShapes) carrying both shapes, with no
\* buffer allocated, no kernel built, no iteration and no pixel task run;
\* images of equal shape never get an error.
C1_ShapeMismatchBeforeAnyWork ==
    /\ (image_a.dim # image_b.dim /\ pc # "call") =>
          /\ pc = "err"
          /\ ret = [tag |-> "Err",
                    err |-> [kind    |-> "MismatchedArrayShapes",
                             shape_a |-> image_a.dim,
                             shape_b |-> image_b.dim]]
          /\ result = NoArray /\ new_tau = NoArray /\ new_sqrt_n = NoArray
          /\ old_tau = NoArray /\ old_sqrt_n = NoArray /\ stop = NoArray
          /\ kernel = NoArray /\ locals = NoArray /\ acc = {} /\ iters = 0
    /\ image_a.dim = image_b.dim => pc # "err" /\ ret.tag # "Err"

C1_Witness ==
    /\ pc = "err"
    /\ image_a.dim = <<2, 3>> /\ image_b.dim = <<3, 2>>
    /\ ret.err.shape_a = <<2, 3>> /\ ret.err.shape_b = <<3, 2>>

\* C2: when saca_2d returns, the z-score returned for every pixel is
\* 1.5 * tau * sqrt_n of the tau and sqrt_n the pixel is left with (for a
\* frozen pixel: of the estimate it was reverted to).
C2_ReturnedZScoreIsOfPersistedState ==
    pc = "done" =>
        \A p \in Pixels : ret.val[p] = ZScore(new_tau[p], new_sqrt_n[p])

\* C3: a stop flag that is set stays set, and in every iteration after the one
\* that set it the task of the pixel is skipped: it fills no buffer, computes
\* no tau and no sample size, and touches nothing but its stop flag.
C3_StopFlagMonotonicAndSkipped ==
    /\ [][stop # NoArray => \A p \in Frozen : stop'[p][0] # 0]_vars
    /\ [](Joined =>
            \A p \in Pixels :
                (frozen_at[p] # -1 /\ frozen_at[p] < s) =>
                    /\ stop[p][0] # 0
                    /\ locals[p] = [state |-> "skipped"]
                    /\ \A x \in acc : x[1] = p => x = <<p, "r", "stop", p>>)

C3_Witness ==
    /\ Joined
    /\ \E p \in Pixels :
          /\ frozen_at[p] # -1 /\ frozen_at[p] < s
          /\ locals[p].state = "skipped"
    /\ \E q \in Pixels : locals[q].state = "processed"

\* C4: once the stop flag of a pixel is set, its cells of new_tau, new_sqrt_n
\* and result and its checkpoint never change again, and old_tau and
\* old_sqrt_n hold its frozen tau and sqrt_n.
C4_FrozenPixelsNeverRewritten ==
    /\ [][stop # NoArray =>
            \A p \in Frozen :
                /\ new_tau'[p] = new_tau[p]
                /\ new_sqrt_n'[p] = new_sqrt_n[p]
                /\ result'[p] = result[p]
                /\ stop'[p] = stop[p]]_vars
    /\ [](stop # NoArray =>
            \A p \in Frozen :
                /\ old_tau[p] = new_tau[p]
                /\ old_sqrt_n[p] = new_sqrt_n[p])

C4_Witness ==
    /\ pc = "done"
    /\ \E p \in Frozen :
          /\ frozen_at[p] < tu - 1
          /\ old_tau[p] = new_tau[p] /\ new_tau[p] # 0
          /\ \E q \in Pixels \ Frozen : q # p

C6_Deterministic ==
    /\ (run = 2 /\ pc \in {"done", "err"}) => ret = first_ret
    /\ Joined =>
          \A p \in Processed :
              ~locals[p].chk.froze => locals[p] = PixelCompute(p)

C6_Witness ==
    /\ run = 2 /\ pc = "done"
    /\ ret = first_ret
    /\ Frozen # {}
    /\ \E p, q \in Pixels : ret.val[p] # ret.val[q]

C8_BarrierBetweenIterations ==
    /\ [][(pc # "call" /\ (old_tau' # old_tau \/ old_sqrt_n' # old_sqrt_n)) =>
            /\ pc = "store" /\ done = Pixels
            /\ old_tau' = new_tau /\ old_sqrt_n' = new_sqrt_n]_vars
    /\ [][pc = "store" =>
            /\ old_tau' = new_tau /\ old_sqrt_n' = new_sqrt_n
            /\ UNCHANGED <<result, new_tau, new_sqrt_n, stop, done>>]_vars
    /\ []((pc \in {"store", "step"}) => done = Pixels)
    /\ []((pc \in {"step", "loop"} /\ iters >= 1) =>
            old_tau = new_tau /\ old_sqrt_n = new_sqrt_n)
    /\ []((pc = "tasks" /\ done = {} /\ s >= 1) =>
            old_tau = new_tau /\ old_sqrt_n = new_sqrt_n)

C8_Witness ==
    /\ pc = "tasks" /\ done = {} /\ s = 2
    /\ old_tau = new_tau /\ old_sqrt_n = new_sqrt_n
    /\ \E p, q \in Pixels : old_tau[p] # old_tau[q]

\* C9: a task that finds the square root of the effective sample size <= 0,
\* or gets an error from weighted_kendall_tau_b, computes tau 0 and writes
\* the z-score 0, and leaves tau 0 unless the stop check reverts the pixel;
\* saca_2d never panics, and fails only on images of different shapes.
C9_DegenerateNumericsGiveZero ==
    /\ pc # "panic"
    /\ pc = "err" => image_a.dim # image_b.dim
    /\ Joined =>
          \A p \in Processed :
              (locals[p].est.nn <= 0 \/ locals[p].est.tau_res.tag = "Err") =>
                  /\ locals[p].est.tau = 0
                  /\ locals[p].est.re = 0
                  /\ result[p] = 0
                  /\ ~locals[p].chk.froze => new_tau[p] = 0

C9_Witness ==
    /\ Joined
    /\ \E p, q \in Processed :
          /\ locals[p].est.nn > 0 /\ locals[p].est.tau_res.tag = "Err"
          /\ result[p] = 0 /\ new_tau[p] = 0
          /\ locals[q].est.tau_res.tag = "Ok" /\ result[q] # 0

\* C10: in the weights a task passes to effective_sample_size and
\* weighted_kendall_tau_b, every slot whose value of A is below threshold_a
\* or whose value of B is below threshold_b has weight 0, and every other
\* slot has the weight fill_buffers_2d gave it.
C10_ThresholdZeroing ==
    Joined =>
        \A p \in Processed :
            \A i \in 1 .. locals[p].win.buf_size :
                locals[p].buf_w[i] =
                    IF \/ locals[p].fb.buf_a[i] < threshold_a
                       \/ locals[p].fb.buf_b[i] < threshold_b
                    THEN 0
                    ELSE locals[p].fb.buf_w[i]

C10_Witness ==
    /\ Joined
    /\ \E p \in Processed :
          \E i, j, k \in 1 .. locals[p].fb.filled :
              /\ locals[p].fb.buf_a[i] < threshold_a
              /\ locals[p].fb.buf_b[i] >= threshold_b
              /\ locals[p].fb.buf_w[i] # 0 /\ locals[p].buf_w[i] = 0
              /\ locals[p].fb.buf_a[j] >= threshold_a
              /\ locals[p].fb.buf_b[j] < threshold_b
              /\ locals[p].fb.buf_w[j] # 0 /\ locals[p].buf_w[j] = 0
              /\ locals[p].fb.buf_a[k] >= threshold_a
              /\ locals[p].fb.buf_b[k] >= threshold_b
              /\ locals[p].buf_w[k] # 0

\* C11: on the identical 2x2 images A = B = [[1,2],[3,4]] with thresholds
\* 0, every task of every iteration computes tau = 1 and writes the z-score
\* 1.5 * sqrt_n > 0, no pixel is ever frozen, and saca_2d returns Ok with
\* four strictly positive z-scores.
C11_IdenticalImagesScenario ==
    (/\ image_a = ImageOf(<< <<1, 2>>, <<3, 4>> >>)
     /\ image_b = ImageOf(<< <<1, 2>>, <<3, 4>> >>)
     /\ threshold_a = 0 /\ threshold_b = 0) =>
        /\ pc \notin {"err", "panic"}
        /\ stop # NoArray => Frozen = {}
        /\ Joined =>
              \A p \in Pixels :
                  /\ locals[p].state = "processed"
                  /\ locals[p].est.tau = SCALE
                  /\ result[p] = ZScore(SCALE, new_sqrt_n[p])
                  /\ result[p] > 0
        /\ pc = "done" =>
              /\ ret.tag = "Ok"
              /\ DOMAIN ret.val = Indices(<<2, 2>>)
              /\ \A p \in Pixels : ret.val[p] > 0

C11_Witness ==
    /\ image_a = ImageOf(<< <<1, 2>>, <<3, 4>> >>)
    /\ image_b = ImageOf(<< <<1, 2>>, <<3, 4>> >>)
    /\ threshold_a = 0 /\ threshold_b = 0
    /\ pc = "done" /\ iters = tu
    /\ Frozen = {}
    /\ \A p \in Pixels : ret.val[p] > SCALE /\ new_tau[p] = SCALE

----------------------------------------------------------------------------
(***************************************************************************)
(* statistics::weighted_merge_sort_mut: a bottom-up merge sort of data     *)
(* that permutes weights identically and returns the weighted inversion    *)
(* count.  Weights are fixed-point numbers; the count is the exact sum of  *)
(* products of two weights, in units of 1 / (SCALE * SCALE).               *)
(***************************************************************************)
Min2(a, b) == IF a <= b THEN a ELSE b

\* the runs merged so far with one more element placed
PlacedMut(m, d, w, inversions) ==
    [data    |-> Append(m.data, d),
     weights |-> <<w>> \o m.weights,
     swaps   |-> m.swaps + inversions]

Placed(m, d, w, inversions) ==
    [data    |-> Append(m.data, d),
     weights |-> Append(m.weights, w),
     swaps   |-> m.swaps + inversions]

\* whether the head of the left run is placed before the head of the right
TakeLeftMut(left, right) == left < right

TakeLeft(left, right) == left <= right

\* what placing an element of the right run before the remaining elements
\* of the left run adds to the count
InversionWeightMut(remaining_left, w_right) == 0 - SeqSum(remaining_left) * w_right

InversionWeight(remaining_left, w_right) == SeqSum(remaining_left) * w_right

RECURSIVE Merge(_, _, _, _, _)
\* one merge step: the left run ld, lw and the right run rd, rw appended to m
Merge(ld, lw, rd, rw, m) ==
    IF ld = <<>> /\ rd = <<>> THEN m
    ELSE IF rd = <<>>
    THEN Merge(Tail(ld), Tail(lw), rd, rw, Placed(m, Head(ld), Head(lw), 0))
    ELSE IF ld = <<>>
    THEN Merge(ld, lw, Tail(rd), Tail(rw), Placed(m, Head(rd), Head(rw), 0))
    ELSE IF TakeLeft(Head(ld), Head(rd))
    THEN Merge(Tail(ld), Tail(lw), rd, rw, Placed(m, Head(ld), Head(lw), 0))
    ELSE Merge(ld, lw, Tail(rd), Tail(rw),
               Placed(m, Head(rd), Head(rw), InversionWeight(lw, Head(rw))))

RECURSIVE MergePass(_, _, _, _, _)
\* one pass over the runs of the given width, from position start on
MergePass(d, w, width, start, m) ==
    IF start > Len(d) THEN m
    ELSE MergePass(d, w, width, start + 2 * width,
                   Merge(SubSeq(d, start, Min2(start + width - 1, Len(d))),
                         SubSeq(w, start, Min2(start + width - 1, Len(d))),
                         SubSeq(d, start + width, Min2(start + 2 * width - 1, Len(d))),
                         SubSeq(w, start + width, Min2(start + 2 * width - 1, Len(d))),
                         m))

RECURSIVE MergeSort(_, _)
\* the passes of width, 2 * width, ... over m.data and m.weights
MergeSort(m, width) ==
    IF width >= Len(m.data) THEN m
    ELSE MergeSort(MergePass(m.data, m.weights, width, 1,
                             [data |-> <<>>, weights |-> <<>>, swaps |-> m.swaps]),
                   2 * width)

weighted_merge_sort_mut(data, weights) ==
    IF Len(data) # Len(weights)
    THEN [tag |-> "Err",
          err |-> [kind |-> "MismatchedArrayLengths",
                   a_arr_len |-> Len(data), b_arr_len |-> Len(weights)],
          data |-> data, weights |-> weights]
    ELSE \* bound once: the three fields are of the same sort
         LET sorted == MergeSort([data |-> data, weights |-> weights, swaps |-> 0], 1)
         IN  [tag |-> "Ok", val |-> sorted.swaps,
              data |-> sorted.data, weights |-> sorted.weights]

----------------------------------------------------------------------------
(***************************************************************************)
(* Direct calls of statistics::weighted_merge_sort_mut, of                 *)
(* statistics::effective_sample_size and of                                *)
(* statistics::weighted_kendall_tau_b.                                     *)
(***************************************************************************)
MaxLen == 4

\* the sequences of length n of elements of S
SeqsOf(S, n) == [1 .. n -> S]

DataValues == {1, 2, 3}

\* the values of a weight: -1.0, 0.5, 2.0
SortWeights == {-1000, 500, 2000}

\* the input of test_statistics.rs
TestData == <<3, 10, 87, 22, 5>>
TestWeights == <<510, 12830, 4240, 9250, 320>>

\* data and weights of equal lengths, or weights one shorter
SortArgs ==
    {[data |-> TestData, weights |-> TestWeights]}
    \cup UNION {[data : SeqsOf(DataValues, n), weights : SeqsOf(SortWeights, n)] :
                   n \in 0 .. MaxLen}
    \cup UNION {[data : SeqsOf(DataValues, n), weights : SeqsOf(SortWeights, n - 1)] :
                   n \in 1 .. MaxLen}

\* the values of a weight of a sample: 0.0, 0.5, 1.0, 2.0
SampleWeights == {0, 500, 1000, 2000}

SampleArgs == UNION {[weights : SeqsOf(SampleWeights, n)] : n \in 0 .. MaxLen}

RankValues == {1, 2}

\* the values of a weight of a ranked pair: 0.0, 0.5, 2.0
RankWeights == {0, 500, 2000}

\* a, b and weights of equal lengths, or weights one shorter
RankArgs ==
    UNION {[a : SeqsOf(RankValues, n), b : SeqsOf(RankValues, n),
            weights : SeqsOf(RankWeights, n)] : n \in 0 .. MaxLen}
    \cup UNION {[a : SeqsOf(RankValues, n), b : SeqsOf(RankValues, n),
                 weights : SeqsOf(RankWeights, n - 1)] : n \in 1 .. MaxLen}

InitStatistics ==
    /\ NoSacaCall
    /\ callee \in {"weighted_merge_sort_mut", "effective_sample_size",
                    "weighted_kendall_tau_b"}
    /\ args \in IF callee = "weighted_merge_sort_mut" THEN SortArgs
                ELSE IF callee = "effective_sample_size" THEN SampleArgs
                ELSE RankArgs
    /\ outcome = None

weighted_merge_sort_mut_call ==
    /\ callee = "weighted_merge_sort_mut"
    /\ Return(weighted_merge_sort_mut(args.data, args.weights))

effective_sample_size_call ==
    /\ callee = "effective_sample_size"
    /\ Return([tag |-> "Value", val |-> effective_sample_size(args.weights)])

weighted_kendall_tau_b_call ==
    /\ callee = "weighted_kendall_tau_b"
    /\ Return(weighted_kendall_tau_b(args.a, args.b, args.weights))

NextStatistics ==
    \/ weighted_merge_sort_mut_call
    \/ effective_sample_size_call
    \/ weighted_kendall_tau_b_call

SpecStatistics == InitStatistics /\ [][NextStatistics]_vars

----------------------------------------------------------------------------
(***************************************************************************)
(* Properties of the kernel builders.                                      *)
(***************************************************************************)
\* the call of the builder fn has returned
Returned(fn) == callee = fn /\ outcome # None

\* the square of the Euclidean distance of the cell k from the center cell
SquaredDistance(k, center) ==
    SumTo([i \in 1 .. Len(k) |-> (k[i] - center) * (k[i] - center)], Len(k))

\* the index set of a kernel of the given radius in 2 or 3 dimensions
KernelIndices(fn, r) ==
    IF fn \in {"circle", "weighted_circle"}
    THEN Indices(<<2 * r + 1, 2 * r + 1>>)
    ELSE Indices3(<<2 * r + 1, 2 * r + 1, 2 * r + 1>>)

\* C12: for every radius >= 1, circle(radius) and sphere(radius) return Ok
\* with a boolean array of side 2 * radius + 1 per axis whose cell at offset
\* (dx, dy[, dz]) from the center is true if and only if
\* dx^2 + dy^2 [+ dz^2] <= radius^2: the center and the cells at distance
\* exactly radius are true, every cell beyond is false.
C12_BooleanFootprint ==
    \A fn \in {"circle", "sphere"} :
        (Returned(fn) /\ args.radius >= 1) =>
            /\ outcome.tag = "Ok"
            /\ DOMAIN outcome.val = KernelIndices(fn, args.radius)
            /\ \A k \in DOMAIN outcome.val :
                   outcome.val[k] \in BOOLEAN
                   /\ (outcome.val[k] <=>
                          SquaredDistance(k, args.radius) <= args.radius * args.radius)
            /\ \A k \in DOMAIN outcome.val :
                   /\ SquaredDistance(k, args.radius) = 0 => outcome.val[k]
                   /\ SquaredDistance(k, args.radius) = args.radius * args.radius
                          => outcome.val[k]
                   /\ SquaredDistance(k, args.radius) > args.radius * args.radius
                          => ~outcome.val[k]

C12_Witness ==
    /\ Returned("circle")
    /\ args.radius = 5
    /\ outcome.tag = "Ok"
    /\ outcome.val[<<5, 5>>] /\ outcome.val[<<8, 1>>] /\ outcome.val[<<5, 0>>]
    /\ ~outcome.val[<<2, 0>>]

\* d / falloff_radius for the distance d whose square is d2
NormDist(d2, falloff_radius) == (ISqrt(d2 * SCALE * SCALE) * SCALE) \div falloff_radius

\* the initial value a weighted builder was called with, 1.0 by default
CalledInitialValue ==
    IF args.initial_value = None THEN SCALE ELSE args.initial_value.val

\* C13: for every radius >= 1, positive falloff_radius and initial_value iv
\* (1.0 by default), weighted_circle and weighted_sphere return Ok with an
\* array of side 2 * radius + 1 per axis whose cell at distance d from the
\* center holds 0 if d / falloff_radius > radius / falloff_radius, else 0 if
\* d / falloff_radius >= iv, else iv - d / falloff_radius; a cell at distance
\* exactly radius is inside the footprint.  With radius 5 and falloff 7 the
\* center holds 1.0, a cell at distance 5 holds 1 - 5/7 and a cell at
\* distance sqrt(34) holds 0.
C13_WeightedCellFormula ==
    \A fn \in {"weighted_circle", "weighted_sphere"} :
        (Returned(fn) /\ args.radius >= 1) =>
            /\ outcome.tag = "Ok"
            /\ DOMAIN outcome.val = KernelIndices(fn, args.radius)
            /\ \A k \in DOMAIN outcome.val :
                   outcome.val[k] =
                       IF NormDist(SquaredDistance(k, args.radius), args.falloff_radius)
                              > NormDist(args.radius * args.radius, args.falloff_radius)
                       THEN 0
                       ELSE IF NormDist(SquaredDistance(k, args.radius), args.falloff_radius)
                                   >= CalledInitialValue
                            THEN 0
                            ELSE CalledInitialValue
                                   - NormDist(SquaredDistance(k, args.radius),
                                              args.falloff_radius)
            /\ \A k \in DOMAIN outcome.val :
                   (/\ SquaredDistance(k, args.radius) = args.radius * args.radius
                    /\ FDiv(args.radius * SCALE, args.falloff_radius) < CalledInitialValue)
                       => outcome.val[k] = CalledInitialValue
                                             - FDiv(args.radius * SCALE, args.falloff_radius)
            /\ (args.radius = 5 /\ args.falloff_radius = 7 * SCALE
                    /\ args.initial_value = None) =>
                   \A k \in DOMAIN outcome.val :
                       /\ SquaredDistance(k, 5) = 0 => outcome.val[k] = SCALE
                       /\ SquaredDistance(k, 5) = 25
                              => outcome.val[k] = SCALE - FDiv(5 * SCALE, 7 * SCALE)
                       /\ SquaredDistance(k, 5) = 34 => outcome.val[k] = 0

C13_Witness ==
    /\ Returned("weighted_circle")
    /\ args = [radius |-> 5, falloff_radius |-> 7 * SCALE, initial_value |-> None]
    /\ outcome.tag = "Ok"
    /\ outcome.val[<<5, 5>>] = SCALE
    /\ outcome.val[<<8, 1>>] = 286
    /\ outcome.val[<<2, 0>>] = 0

\* the cells of the returned kernel inside the footprint of the radius
InsideFootprint ==
    {k \in DOMAIN outcome.val :
        SquaredDistance(k, args.radius) <= args.radius * args.radius}

\* the pairs <<squared distance, weight>> of the given cells
WeightProfile(cells) ==
    {<<SquaredDistance(k, args.radius), outcome.val[k]>> : k \in cells}

\* the center cell of the returned kernel
CenterCell ==
    IF callee = "weighted_circle"
    THEN <<args.radius, args.radius>>
    ELSE <<args.radius, args.radius, args.radius>>

C15_WeightMonotoneInDistance ==
    \A fn \in {"weighted_circle", "weighted_sphere"} :
        (Returned(fn) /\ outcome.tag = "Ok") =>
            \A prof \in {WeightProfile(DOMAIN outcome.val)} :
                \A c1, c2 \in prof :
                    c1[1] < c2[1] =>
                        /\ c1[2] >= c2[2]
                        /\ c1[2] > 0 => c1[2] > c2[2]

C15_Witness ==
    /\ Returned("weighted_circle")
    /\ args = [radius |-> 5, falloff_radius |-> 7 * SCALE, initial_value |-> None]
    /\ outcome.tag = "Ok"
    /\ outcome.val[<<5, 5>>] > outcome.val[<<5, 6>>]
    /\ outcome.val[<<5, 6>>] > outcome.val[<<6, 6>>]
    /\ outcome.val[<<5, 9>>] > outcome.val[<<5, 10>>]
    /\ outcome.val[<<5, 10>>] > outcome.val[<<1, 1>>]
    /\ outcome.val[<<1, 1>>] = 0 /\ outcome.val[<<0, 0>>] = 0

\* the name of the radius parameter of each kernel builder
RadiusParameter(fn) ==
    IF fn = "weighted_circle" THEN "circle_radius"
    ELSE IF fn = "weighted_sphere" THEN "sphere_radius"
    ELSE "radius"

\* the error variants InvalidArrayParameterValue*
InvalidArrayParameterValue ==
    {"InvalidArrayParameterValueEqual", "InvalidArrayParameterValueGreater",
     "InvalidArrayParameterValueLess"}

\* C16: every kernel builder (circle, sphere, weighted_circle,
\* weighted_sphere) called with radius 0 returns an
\* InvalidArrayParameterValue* error that names its radius parameter with
\* value 0 and returns no array, none having been allocated; called with a
\* radius >= 1 it returns Ok with the kernel.
C16_ZeroRadiusRejected ==
    \A fn \in KernelBuilders :
        Returned(fn) =>
            /\ args.radius = 0 =>
                   /\ outcome.tag = "Err"
                   /\ DOMAIN outcome = {"tag", "err"}
                   /\ outcome.err.kind \in InvalidArrayParameterValue
                   /\ outcome.err.param_name = RadiusParameter(fn)
                   /\ outcome.err.value = 0
            /\ args.radius >= 1 =>
                   /\ outcome.tag = "Ok"
                   /\ DOMAIN outcome = {"tag", "val"}
                   /\ DOMAIN outcome.val = KernelIndices(fn, args.radius)

C16_Witness ==
    /\ Returned("sphere")
    /\ args.radius = 0
    /\ outcome = [tag |-> "Err",
                  err |-> [kind |-> "InvalidArrayParameterValueEqual",
                           param_name |-> "radius", value |-> 0]]

----------------------------------------------------------------------------
(***************************************************************************)
(* Properties of weighted_merge_sort_mut and effective_sample_size.        *)
(***************************************************************************)
\* weighted_merge_sort_mut has returned from a call with slices of one length
Sorted ==
    /\ Returned("weighted_merge_sort_mut")
    /\ Len(args.data) = Len(args.weights)

\* how many positions of d, w hold the data value x[1] with the weight x[2]
Occurrences(d, w, x) ==
    Cardinality({i \in 1 .. Len(d) : d[i] = x[1] /\ w[i] = x[2]})

\* the pairs <<d[i], w[i]>>
PairsIn(d, w) == {<<d[i], w[i]>> : i \in 1 .. Len(d)}

\* C17: for any equal-length sequences (data, weights),
\* weighted_merge_sort_mut returns Ok and leaves data in non-decreasing order
\* and the multiset of pairs (data[i], weights[i]) equal to that of the
\* input: each weight has travelled with its data value.  Data
\* [3,10,87,22,5] with weights [0.51,12.83,4.24,9.25,0.32] becomes
\* [3,5,10,22,87] with [0.51,0.32,12.83,9.25,4.24].
C17_SortedWithWeights ==
    Sorted =>
        /\ outcome.tag = "Ok"
        /\ Len(outcome.data) = Len(args.data)
        /\ Len(outcome.weights) = Len(args.data)
        /\ \A i \in 1 .. Len(outcome.data) - 1 : outcome.data[i] <= outcome.data[i + 1]
        /\ \A x \in PairsIn(args.data, args.weights)
                       \cup PairsIn(outcome.data, outcome.weights) :
               Occurrences(outcome.data, outcome.weights, x)
                   = Occurrences(args.data, args.weights, x)
        /\ (args.data = <<3, 10, 87, 22, 5>>
                /\ args.weights = <<510, 12830, 4240, 9250, 320>>) =>
               /\ outcome.data = <<3, 5, 10, 22, 87>>
               /\ outcome.weights = <<510, 320, 12830, 9250, 4240>>

C17_Witness ==
    /\ Sorted
    /\ args.data = <<3, 10, 87, 22, 5>>
    /\ args.weights = <<510, 12830, 4240, 9250, 320>>
    /\ outcome.tag = "Ok"
    /\ outcome.data = <<3, 5, 10, 22, 87>>
    /\ outcome.weights = <<510, 320, 12830, 9250, 4240>>

\* the sum of w[i] * w[j] over the positions i < j with d[i] > d[j]
InvertedWeight(d, w) ==
    SumTo([j \in 1 .. Len(d) |->
              SumTo([i \in 1 .. Len(d) |->
                        IF i < j /\ d[i] > d[j] THEN w[i] * w[j] ELSE 0],
                    Len(d))],
          Len(d))

\* C18: for every input of equal-length sequences the value returned by
\* weighted_merge_sort_mut is the sum of weights[i] * weights[j] over the
\* input positions i < j with data[i] > data[j] strictly (tied values are
\* not inversions).  For the test input the pairs (10,5), (87,22), (87,5),
\* (22,5) give 47.6424.
C18_WeightedInversionCount ==
    Sorted =>
        /\ outcome.tag = "Ok"
        /\ outcome.val = InvertedWeight(args.data, args.weights)
        /\ (args.data = <<3, 10, 87, 22, 5>>
                /\ args.weights = <<510, 12830, 4240, 9250, 320>>) =>
               outcome.val = 12830 * 320 + 4240 * 9250 + 4240 * 320 + 9250 * 320

C18_Witness ==
    /\ Sorted
    /\ args.data = <<3, 10, 87, 22, 5>>
    /\ args.weights = <<510, 12830, 4240, 9250, 320>>
    /\ outcome.tag = "Ok"
    /\ outcome.val = 47642400

\* the data of the call is in non-decreasing order
AlreadySorted == \A i \in 1 .. Len(args.data) - 1 : args.data[i] <= args.data[i + 1]

\* C19 as stated: the weighted inversion count returned by
\* weighted_merge_sort_mut is non-negative for every input, and is 0, with
\* data and weights unchanged, when the data is already in non-decreasing
\* order.
C19_CountNonNegativeForEveryInput ==
    Sorted =>
        /\ outcome.tag = "Ok"
        /\ outcome.val >= 0
        /\ AlreadySorted =>
               /\ outcome.val = 0
               /\ outcome.data = args.data
               /\ outcome.weights = args.weights

\* C19: the weighted inversion count returned by weighted_merge_sort_mut is
\* non-negative for every input whose weights are non-negative, and for any
\* weights it is 0, with data and weights unchanged, when the data is already
\* in non-decreasing order.
C19_CountNonNegative ==
    Sorted =>
        /\ outcome.tag = "Ok"
        /\ (\A i \in 1 .. Len(args.weights) : args.weights[i] >= 0) => outcome.val >= 0
        /\ AlreadySorted =>
               /\ outcome.val = 0
               /\ outcome.data = args.data
               /\ outcome.weights = args.weights

C19_Witness ==
    /\ Sorted
    /\ args.data = <<1, 2, 2, 3>>
    /\ args.weights = <<2000, 500, 2000, 500>>
    /\ outcome = [tag |-> "Ok", val |-> 0,
                  data |-> <<1, 2, 2, 3>>, weights |-> <<2000, 500, 2000, 500>>]

\* the positions of the weights of the call that are not 0
NonZeroWeights == {i \in 1 .. Len(args.weights) : args.weights[i] # 0}

Ranked ==
    /\ Returned("weighted_kendall_tau_b")
    /\ Len(args.a) = Len(args.b)
    /\ Len(args.a) = Len(args.weights)

\* C21: for equal-length sequences a, b and non-negative weights whose Tau-b
\* denominator is not zero, weighted_kendall_tau_b returns a value tau with
\* -1.0 <= tau <= 1.0.
C21_TauWithinUnitInterval ==
    (/\ Ranked
     /\ \A i \in 1 .. Len(args.weights) : args.weights[i] >= 0
     /\ outcome.tag = "Ok") =>
        /\ -SCALE <= outcome.val
        /\ outcome.val <= SCALE

C21_Witness ==
    /\ Ranked
    /\ args.a = <<1, 2, 2, 1>>
    /\ args.b = <<1, 2, 1, 1>>
    /\ args.weights = <<500, 2000, 500, 2000>>
    /\ outcome.tag = "Ok"
    /\ 0 < outcome.val /\ outcome.val < SCALE

----------------------------------------------------------------------------
(***************************************************************************)
(* Properties of the buffer filler and of the schedule of saca_2d.         *)
(***************************************************************************)
\* old_sqrt_n[center] / dn for the pixel p, dn > 0
OnDn(p) == (old_sqrt_n[p] * SCALE) \div dn

\* |old_tau[cell] - old_tau[center]| for slot i of the task of pixel p
TauGap(p, i) == Abs(old_tau[locals[p].fb.cells[i]] - old_tau[p])

\* the kernel weight of slot i of the task of pixel p
KernelWeight(p, i) == kernel[locals[p].fb.kidx[i]]

\* kernel_weight * (1 - tau_diff)^2 if tau_diff < 1.0, otherwise 0
Reweighted(kw, tau_diff) ==
    IF tau_diff < SCALE
    THEN FMul(kw, FMul(SCALE - tau_diff, SCALE - tau_diff))
    ELSE 0

\* C22 as stated: for every window cell fill_buffers_2d computes
\* tau_diff = |old_tau[cell] - old_tau[center]| / (old_sqrt_n[center] / dn);
\* the weight of the cell is kernel_weight * (1 - tau_diff)^2 if
\* tau_diff < 1.0 and 0 otherwise.
C22_TauGapDividedBySampleSize ==
    (Joined /\ dn > 0) =>
        \A p \in Processed :
            \A i \in 1 .. locals[p].fb.filled :
                OnDn(p) > 0 =>
                    locals[p].fb.buf_w[i] =
                        Reweighted(KernelWeight(p, i), (TauGap(p, i) * SCALE) \div OnDn(p))

\* C22: for every window cell fill_buffers_2d computes
\* tau_diff = |old_tau[cell] - old_tau[center]| * (old_sqrt_n[center] / dn);
\* the weight of the cell is kernel_weight * (1 - tau_diff)^2 if
\* tau_diff < 1.0 and 0 otherwise (tau_diff is not a number when dn = 0).
C22_TauGapTimesSampleSize ==
    Joined =>
        \A p \in Processed :
            \A i \in 1 .. locals[p].fb.filled :
                locals[p].fb.buf_w[i] =
                    IF dn = 0 THEN 0
                    ELSE Reweighted(KernelWeight(p, i), FMul(TauGap(p, i), OnDn(p)))

C22_Witness ==
    /\ Joined
    /\ dn > 0
    /\ \E p \in Processed :
          \E i, j \in 1 .. locals[p].fb.filled :
              /\ TauGap(p, i) > 0
              /\ FMul(TauGap(p, i), OnDn(p)) < SCALE
              /\ 0 < locals[p].fb.buf_w[i]
              /\ locals[p].fb.buf_w[i] < KernelWeight(p, i)
              /\ FMul(TauGap(p, j), OnDn(p)) >= SCALE
              /\ KernelWeight(p, j) > 0
              /\ locals[p].fb.buf_w[j] = 0

\* |checkpoint_tau - tau_new| * checkpoint_sqrt_n of the processed pixel p
CheckpointGap(p) == FMul(Abs(stop[p][1] - locals[p].est.tau), stop[p][2])

\* C23: in an iteration with bound_check active a processed pixel is frozen
\* exactly when |checkpoint_tau - tau_new| * checkpoint_sqrt_n > lambda,
\* strictly.  When it is frozen its stop flag is set and its tau and
\* sqrt_effective_n at the end of the iteration are those it held at the end
\* of the previous iteration; when it is not, its stop flag stays unset and
\* it keeps the newly computed tau and sqrt_effective_n.
C23_StopConditionAndRevert ==
    (Joined /\ lower_bound_check) =>
        \A p \in Processed :
            /\ stop[p][0] # 0 <=> CheckpointGap(p) > lambda
            /\ stop[p][0] # 0 =>
                   /\ frozen_at[p] = s
                   /\ new_tau[p] = old_tau[p]
                   /\ new_sqrt_n[p] = old_sqrt_n[p]
            /\ stop[p][0] = 0 =>
                   /\ frozen_at[p] = -1
                   /\ new_tau[p] = locals[p].est.tau
                   /\ new_sqrt_n[p] = locals[p].est.nn

C23_Witness ==
    /\ Joined
    /\ lower_bound_check
    /\ \E p, q \in Processed :
          /\ CheckpointGap(p) > lambda
          /\ stop[p][0] # 0
          /\ new_tau[p] = old_tau[p] /\ new_tau[p] # locals[p].est.tau
          /\ new_sqrt_n[p] = old_sqrt_n[p] /\ new_sqrt_n[p] # locals[p].est.nn
          /\ 0 < CheckpointGap(q) /\ CheckpointGap(q) <= lambda
          /\ stop[q][0] = 0
          /\ new_tau[q] = locals[q].est.tau

\* saca_2d is between the creation of its buffers and its return
Running == pc \in {"loop", "tasks", "store", "step"}

\* C24: bound_check is false in every iteration s of 0..8, s = tl = 8
\* included, is switched to true exactly once, right after iteration 8
\* completes, and is true in every iteration 9..14 without ever returning to
\* false; so every pixel is processed in the iterations 0..8 and no stop flag
\* is set before iteration 9.
C24_BoundCheckSchedule ==
    /\ [](Running => (lower_bound_check <=> s > tl))
    /\ [](pc \in {"tasks", "store", "step"} =>
             /\ s \in 0 .. tl => ~lower_bound_check
             /\ s \in tl + 1 .. tu - 1 => lower_bound_check)
    /\ [][lower_bound_check => lower_bound_check']_vars
    /\ [][(~lower_bound_check /\ lower_bound_check') =>
             (pc = "step" /\ s = tl /\ iters = tl + 1)]_vars
    /\ []((Joined /\ s <= tl) =>
             /\ Processed = Pixels
             /\ Frozen = {})
    /\ [](stop # NoArray =>
             \A p \in Pixels :
                 /\ stop[p][0] # 0 => s >= tl + 1
                 /\ frozen_at[p] # -1 => frozen_at[p] >= tl + 1)

C24_Witness ==
    /\ pc = "store"
    /\ s = tl + 1
    /\ lower_bound_check
    /\ iters = tl + 1
    /\ Processed = Pixels

\* the checkpoint of pixel p: <<checkpoint_tau, checkpoint_sqrt_n>>
Checkpoint(lanes, p) == <<lanes[p][1], lanes[p][2]>>

\* C25: the checkpoint of every pixel is 0 until iteration tl = 8 has
\* completed, is written exactly once, in the step that ends iteration 8, with
\* the tau and the sqrt_effective_n that iteration 8 produced for the pixel,
\* and is not modified in the iterations 9..14, whether the pixel is
\* processed or frozen.
C25_CheckpointWrittenOnce ==
    /\ []((stop # NoArray /\ ~lower_bound_check) =>
             \A p \in Pixels : Checkpoint(stop, p) = <<0, 0>>)
    /\ [][(pc = "step" /\ s = tl) =>
             \A p \in Pixels :
                 /\ locals[p].state = "processed"
                 /\ Checkpoint(stop', p) = <<locals[p].est.tau, locals[p].est.nn>>
                 /\ Checkpoint(stop', p) = <<new_tau[p], new_sqrt_n[p]>>]_vars
    /\ [][(stop # NoArray /\ stop' # NoArray /\ ~(pc = "step" /\ s = tl)) =>
             \A p \in Pixels : Checkpoint(stop', p) = Checkpoint(stop, p)]_vars

C25_Witness ==
    /\ pc = "store"
    /\ s = tu - 1
    /\ \E p, q \in Pixels :
           /\ stop[p][0] # 0
           /\ stop[q][0] = 0
           /\ locals[q].state = "processed"
           /\ Checkpoint(stop, p)[1] # 0
           /\ Checkpoint(stop, q)[1] # 0
           /\ Checkpoint(stop, q)[1] # Checkpoint(stop, q)[2]
           /\ Checkpoint(stop, q) # <<new_tau[q], new_sqrt_n[q]>>

\* floor(1.15^s) for s = 0 .. 14
RadiusSchedule == <<1, 1, 1, 1, 1, 2, 2, 2, 3, 3, 4, 4, 5, 6, 7>>

\* an iteration of the loop is under way
InIteration == pc \in {"tasks", "store", "step"}

\* C26: the radius used in iteration s is floor(1.15^s), the non-decreasing
\* sequence 1,1,1,1,1,2,2,2,3,3,4,4,5,6,7 for s = 0..14, the size factor
\* starting at 1.0 and growing after every iteration; the checkpoint
\* iteration s = 8 uses radius 3.
C26_RadiusSchedule ==
    /\ InIteration =>
           /\ s \in 0 .. tu - 1
           /\ radius = RadiusSchedule[s + 1]
           /\ radius = size_f \div SIZE_SCALE
           /\ DOMAIN kernel = Indices(<<2 * radius + 1, 2 * radius + 1>>)
           /\ s = tl => radius = 3
           /\ s > 0 => radius >= RadiusSchedule[s]
    /\ (pc = "loop" /\ s = 0) => size_f = SIZE_SCALE
    /\ (pc = "loop" /\ s > 0) =>
           /\ radius = RadiusSchedule[s]
           /\ size_f > radius * SIZE_SCALE

C26_Witness ==
    /\ pc = "store"
    /\ s = tu - 1
    /\ radius = 7
    /\ DOMAIN kernel = Indices(<<15, 15>>)
    /\ iters = tu - 1

Max2(a, b) == IF a >= b THEN a ELSE b

\* the cells of the image within the radius of pixel p along both axes
Neighbourhood(p) ==
    {c \in Pixels : Abs(c[1] - p[1]) <= radius /\ Abs(c[2] - p[2]) <= radius}

\* C27: for every pixel and every radius r >= 1 the window filled into the
\* buffers is exactly [max(0,row-r), min(rows-1,row+r)] x
\* [max(0,col-r), min(cols-1,col+r)] and contains the pixel itself; every
\* image index read is in bounds, every kernel index is
\* (r' - row + r, c' - col + r) within [0, 2r], the filled slots are at most
\* the buffer length (2r+1)^2, slot i of the three buffers refers to the same
\* window cell, and every slot after the filled ones holds value 0 and
\* weight 0.
C27_BoundaryAwareFill ==
    /\ pc # "panic"
    /\ Joined =>
         \A p \in Processed :
            LET win == locals[p].win
                fb  == locals[p].fb
            IN  /\ radius >= 1
                /\ win.row_start = Max2(0, p[1] - radius)
                /\ win.row_end = Min2(dims_a[1] - 1, p[1] + radius)
                /\ win.col_start = Max2(0, p[2] - radius)
                /\ win.col_end = Min2(dims_a[2] - 1, p[2] + radius)
                /\ Range(fb.cells) = Neighbourhood(p)
                /\ p \in Range(fb.cells)
                /\ fb.filled = Cardinality(Neighbourhood(p))
                /\ fb.filled = Len(fb.cells)
                /\ fb.filled = Len(fb.kidx)
                /\ fb.filled >= 1
                /\ fb.filled <= win.buf_size
                /\ win.buf_size = (2 * radius + 1) * (2 * radius + 1)
                /\ Len(fb.buf_a) = win.buf_size
                /\ Len(fb.buf_b) = win.buf_size
                /\ Len(fb.buf_w) = win.buf_size
                /\ \A i \in 1 .. fb.filled :
                      /\ InBounds(fb.cells[i], dims_a)
                      /\ InBounds(fb.cells[i], dims_b)
                      /\ fb.kidx[i] = <<fb.cells[i][1] - p[1] + radius,
                                        fb.cells[i][2] - p[2] + radius>>
                      /\ fb.kidx[i][1] \in 0 .. 2 * radius
                      /\ fb.kidx[i][2] \in 0 .. 2 * radius
                      /\ fb.kidx[i] \in DOMAIN kernel
                      /\ fb.buf_a[i] = image_a.px[fb.cells[i]]
                      /\ fb.buf_b[i] = image_b.px[fb.cells[i]]
                      /\ fb.buf_w[i] =
                            ConsistencyWeight(kernel[fb.kidx[i]], old_tau[fb.cells[i]],
                                              old_tau[p], old_sqrt_n[p], dn)
                /\ \A i \in fb.filled + 1 .. win.buf_size :
                      /\ fb.buf_a[i] = 0
                      /\ fb.buf_b[i] = 0
                      /\ fb.buf_w[i] = 0
                      /\ locals[p].buf_w[i] = 0

C27_Witness ==
    /\ Joined
    /\ radius = 1
    /\ \E p, q \in Processed :
          /\ locals[p].win.col_start = p[2] - radius
          /\ locals[p].win.col_end = p[2] + radius
          /\ locals[p].win.row_start = 0
          /\ locals[p].win.row_end = dims_a[1] - 1
          /\ locals[p].fb.filled < locals[p].win.buf_size
          /\ locals[p].fb.buf_a[locals[p].fb.filled] # 0
          /\ locals[p].fb.buf_w[locals[p].fb.filled] # 0
          /\ q[2] = 0
          /\ locals[q].win.col_start = 0
          /\ locals[q].win.col_end = 1
          /\ locals[q].fb.filled < locals[p].fb.filled

\* the kernel of the current iteration has just been built
KernelBuilt == pc = "tasks" /\ done = {}

\* C28: in every one of the 15 iterations the radius passed to
\* weighted_circle is >= 1, so the kernel build never returns the radius-0
\* error and the unwrap of single_iteration_2d never panics, whatever the
\* shape of the images.
C28_KernelRadiusNeverZero ==
    /\ pc # "panic"
    /\ (pc = "loop" /\ LoopContinues(s)) => RadiusOf(size_f) >= 1
    /\ InIteration => radius >= 1
    /\ KernelBuilt =>
          LET k == weighted_circle(radius, Falloff(radius), SCALE)
          IN  /\ k.tag = "Ok"
              /\ kernel = k.val
    /\ pc = "done" => (iters = tu /\ ret.tag = "Ok")

C28_Witness ==
    /\ pc = "done"
    /\ iters = tu
    /\ radius = 7
    /\ ret.tag = "Ok"
    /\ dims_a = <<3, 2>>

\* every pixel of the image is below the threshold
AllBelow(image, threshold) == \A p \in Indices(image.dim) : image.px[p] < threshold

\* saca_2d has created its buffers
Allocated == pc \in {"loop", "tasks", "store", "step", "done"}

\* C29: if every pixel of image A is below threshold_a, or every pixel of
\* image B is below threshold_b, then in every iteration every pixel has
\* tau = 0 and sqrt_effective_n = 0, its stop-condition difference is 0 and
\* no pixel is ever frozen, and saca_2d returns Ok with an all-zero z-score
\* map.
C29_AllBelowThresholdGivesZeroMap ==
    (/\ ~ShapesDiffer(dims_a, dims_b)
     /\ AllBelow(image_a, threshold_a) \/ AllBelow(image_b, threshold_b))
    => /\ pc \notin {"err", "panic"}
       /\ Allocated =>
             \A p \in Pixels :
                /\ new_tau[p] = 0
                /\ new_sqrt_n[p] = 0
                /\ result[p] = 0
                /\ stop[p][0] = 0
                /\ frozen_at[p] = -1
       /\ Joined =>
             /\ Processed = Pixels
             /\ \A p \in Pixels :
                   /\ \A i \in 1 .. Len(locals[p].buf_w) : locals[p].buf_w[i] = 0
                   /\ locals[p].est.nn = 0
                   /\ locals[p].est.tau = 0
                   /\ locals[p].est.re = 0
                   /\ locals[p].chk.tau_diff = 0
                   /\ ~StopCondition(locals[p].chk.tau_diff, lambda)
                   /\ ~locals[p].chk.froze
       /\ pc = "done" =>
             /\ iters = tu
             /\ ret = [tag |-> "Ok", val |-> Filled(dims_a, 0)]

C29_Witness ==
    /\ pc = "done"
    /\ AllBelow(image_a, threshold_a)
    /\ ~AllBelow(image_b, threshold_b)
    /\ Cardinality(Pixels) > 1
    /\ lambda > 0
    /\ ret = [tag |-> "Ok", val |-> Filled(dims_a, 0)]

\* the A and B intensities of pixel p both meet their thresholds
MeetsThresholds(p) ==
    /\ image_a.px[p] >= threshold_a
    /\ image_b.px[p] >= threshold_b

\* the buffer slot of the task of pixel p that holds the pixel itself
CenterSlot(p) == CHOOSE i \in 1 .. locals[p].fb.filled : locals[p].fb.cells[i] = p

\* C30: for an image of at least 2 pixels, in every iteration in which a
\* pixel is processed every weight handed to effective_sample_size and
\* weighted_kendall_tau_b lies in [0, 1]; if the pixel's own A and B
\* intensities meet their thresholds, its center slot has weight exactly 1,
\* so sqrt_effective_n >= 1 and the zero-sample-size branch is not taken for
\* that pixel.
C30_WeightsInUnitIntervalCenterOne ==
    (Joined /\ Cardinality(Pixels) >= 2)
    => \A p \in Processed :
          /\ \A i \in 1 .. Len(locals[p].buf_w) :
                /\ 0 <= locals[p].buf_w[i]
                /\ locals[p].buf_w[i] <= SCALE
          /\ MeetsThresholds(p) =>
                /\ \E i \in 1 .. locals[p].fb.filled : locals[p].fb.cells[i] = p
                /\ locals[p].fb.kidx[CenterSlot(p)] = <<radius, radius>>
                /\ kernel[<<radius, radius>>] = SCALE
                /\ locals[p].fb.buf_w[CenterSlot(p)] = SCALE
                /\ locals[p].buf_w[CenterSlot(p)] = SCALE
                /\ locals[p].est.nn >= SCALE
                /\ locals[p].est.tau_res.tag # "NotCalled"
                /\ new_sqrt_n[p] >= SCALE

C30_Witness ==
    /\ Joined
    /\ Cardinality(Pixels) >= 2
    /\ \E p, q \in Processed :
          /\ MeetsThresholds(p)
          /\ locals[p].buf_w[CenterSlot(p)] = SCALE
          /\ locals[p].est.nn > SCALE
          /\ \E i \in 1 .. locals[p].fb.filled :
                /\ 0 < locals[p].buf_w[i]
                /\ locals[p].buf_w[i] < SCALE
          /\ MeetsThresholds(q)
          /\ locals[q].est.nn = SCALE
          /\ \E r \in Processed : ~MeetsThresholds(r) /\ locals[r].buf_w[CenterSlot(r)] = 0

=============================================================================
